---- MODULE Spec2Model ----
(***************************************************************************)
(* Hazard Atlas: the /api/recalls aggregation handler of the Express       *)
(* server (fetchOpenFda, fetchAllOpenFda, the two-endpoint orchestration   *)
(* and its connectivity-probe fallback).                                   *)
(*                                                                         *)
(* Every client request runs the handler as its own async function; a      *)
(* handler is suspended only at an await (a request in flight, a backoff,  *)
(* the 200 ms politeness delay, the 250 ms pause).  The code between two   *)
(* awaits is split here at the call boundaries fetchOpenFda /              *)
(* fetchAllOpenFda / handler; handlers share no program state.             *)
(***************************************************************************)
EXTENDS Integers, Sequences, FiniteSets, TLC

\* ------------------------------------------------------------------ bounds
NumClients == 2      \* client requests served concurrently (SpecConc)
MaxFaults == 3      \* upstream failures while several requests are served (SpecConc)
MaxM == 4            \* largest maxRecords drawn for a bare fetchAllOpenFda call
MaxP == 3            \* largest pageSize drawn for a bare fetchAllOpenFda call
MaxN == 5            \* largest source size drawn for a bare fetchAllOpenFda call
MaxRecords == 3      \* most records the page holds while the filters are worked (SpecView)
MaxGeoRecords == 2   \* most records the server answers the page with (SpecGeo)
MaxEnqueued == 4     \* enqueueGeocode calls after which the user changes no input (SpecGeo)
MaxOver == 5         \* characters by which an error body exceeds the snippet limit (SpecSnippet)
MaxThrowAt == 3      \* callback invocations, counted from the first, that may throw (SpecGeoThrow)

\* ------------------------------------------------------- program constants
DefaultAttempts == 3
\* Variant: the probe made with the default attempts.
ProbeRetried == DefaultAttempts
ProbeAttempts == 1
BackoffBase == 700
FirstMaxRecords == 250
FirstPageSize == 500
RetryMaxRecords == 500
RetryPageSize == 50
SnippetLimit == 500

Clients == 1..NumClients
Endpoints == {"food", "drug"}

Min(a, b) == IF a < b THEN a ELSE b

RECURSIVE Pow2(_)
Pow2(n) == IF n <= 0 THEN 1 ELSE 2 * Pow2(n - 1)

VARIABLES
  avail,        \* upstream: number of records each endpoint holds
  faultModel,   \* upstream: the outcomes it can produce, and how many more failures
  net,          \* outbound requests in flight
  pc,           \* per client: the await the handler is suspended at
  errors,       \* per client: handler's errors list
  foodResults,  \* per client
  drugResults,  \* per client
  retryFood,    \* per client
  retryDrug,    \* per client
  response,     \* per client: what was sent with res.json / res.status().json
  fa,           \* per client: frame of the running fetchAllOpenFda call
  fo,           \* per client: frame of the running fetchOpenFda call
  reqLog,       \* history: page requests of the running fetchAllOpenFda call
  waits,        \* history: backoff delays of the running fetchOpenFda call
  calls,        \* history: fetchAllOpenFda calls made by the handler
  probes,       \* history: requests sent to the connectivity-probe URL
  failed,       \* history: the (pass, endpoint) fetches that threw to the handler
  sent,         \* history: requests sent by the running fetchOpenFda call
  served        \* history: the wire exchange that ended the running fetchOpenFda

\* The page in the browser (src/public/app.js).
VARIABLES
  ld,             \* loadData: "fetch" while it awaits fetch(API), then "done"
  rawResults,     \* the unified records the page holds
  controls,       \* DOM: values of the type, classification, sort, limit, search inputs
  listEl,         \* DOM: ids of the records in the rendered list, in order
  countEl,        \* DOM: the count text
  markers,        \* the keys of the markers Map: ids of records with a marker
  markersLayer,   \* the layers of markersLayer: the record id of every marker on the map
  messages,       \* DOM: the status area written by showMessage
  geocache,       \* address -> coordinates, null, or nothing
  localStorage,   \* what is stored under GEO_KEY
  geocodeQueue,   \* pending { q, cb } items
  geocodeRunning, \* the flag of the same name
  loops,          \* the runGeomQueue invocations that have not returned
  geoNet,         \* geocoding requests in flight
  enq,            \* history: number of enqueueGeocode calls, the id of the last one
  taken,          \* history: the items shifted off the queue, in order
  delivered,      \* history: the callback invocations, in order
  geoWaits,       \* history: number of 1.1 s waits that have elapsed
  pageFaults      \* the browser: which callback invocations throw, whether setItem throws

\* One application of normalize's report_date conversion.
VARIABLES
  val,            \* String(item.report_date), as characters
  report_date     \* the report_date field of the normalized record

serverVars == <<avail, faultModel, net, pc, errors, foodResults, drugResults,
                retryFood, retryDrug, response, fa, fo, reqLog, waits, calls,
                probes, failed, sent, served>>

clientVars == <<ld, rawResults, controls, listEl, countEl, markers, markersLayer, messages,
                geocache, localStorage, geocodeQueue, geocodeRunning, loops,
                geoNet, enq, taken, delivered, geoWaits, pageFaults>>

dateVars == <<val, report_date>>

vars == <<serverVars, clientVars, dateVars>>

\* ---------------------------------------------------------------- upstream
\* A request URL: the endpoint, whether it carries the date-range search, and
\* the limit/skip paging parameters.
Url(e, search, limit, skip) ==
  [endpoint |-> e, search |-> search, limit |-> limit, skip |-> skip]

NoUrl == Url("none", FALSE, 0, 0)

\* The records endpoint e holds, in source order.
Records(e) == [i \in 1..avail[e] |-> <<e, i>>]

\* The page a source serves for limit/skip.
UpstreamPage(url) ==
  SubSeq(Records(url.endpoint), url.skip + 1,
         Min(avail[url.endpoint], url.skip + url.limit))

\* Response bodies: JSON text (an object with or without a results array) or
\* other text; words is the text the body shows in an error snippet.
JsonPage(page) ==
  [isJson |-> TRUE, hasResults |-> TRUE, results |-> page, words |-> <<"results">>]
JsonNoResults ==
  [isJson |-> TRUE, hasResults |-> FALSE, results |-> <<>>, words |-> <<"NOT_FOUND">>]
HtmlBody(words) ==
  [isJson |-> FALSE, hasResults |-> FALSE, results |-> <<>>, words |-> words]

NoBody == HtmlBody(<<>>)

HttpResponse(status, body) ==
  [kind |-> "response", status |-> status, body |-> body, message |-> <<>>]
TransportError(message) ==
  [kind |-> "error", status |-> 0, body |-> NoBody, message |-> message]
Timeout ==
  [kind |-> "timeout", status |-> 0, body |-> NoBody, message |-> <<>>]

\* Error messages Node reports on the request's "error" event.
TransportMessages ==
  { <<"connect", "ECONNREFUSED">>, <<"socket", "hang", "up">> }

\* What can come back for one https.get of url.
BasicOutcomes(url) ==
  { HttpResponse(200, JsonPage(UpstreamPage(url))),
    HttpResponse(404, JsonNoResults) }

FullOutcomes(url) ==
  BasicOutcomes(url) \cup
  { HttpResponse(200, JsonNoResults),
    HttpResponse(200, HtmlBody(<<"login">>)),
    HttpResponse(302, HtmlBody(<<"Found">>)),
    HttpResponse(302, JsonPage(UpstreamPage(url))),
    HttpResponse(503, HtmlBody(<<"upstream", "TLS", "error">>)),
    Timeout } \cup
  { TransportError(m) : m \in TransportMessages }

\* The answer of a healthy upstream.
Healthy(url) == HttpResponse(200, JsonPage(UpstreamPage(url)))

\* An error page of n characters; its text is kept character by character.
PageChars == <<"a", "b", "c">>

Text(n) == [i \in 1..n |-> PageChars[(i % 3) + 1]]

BodyLengths == 0..(SnippetLimit + MaxOver)

ErrorPages ==
  { HttpResponse(status, HtmlBody(Text(n))) : status \in {400, 503}, n \in BodyLengths }

\* An upstream that may fail at any request, with every kind of failure.
AnyFault == [kinds |-> "full", limited |-> FALSE, budget |-> 0]

\* An upstream that fails at most n more times, with HTTP errors only.
FewFaults(n) == [kinds |-> "basic", limited |-> TRUE, budget |-> n]

\* An upstream that may answer any request with an error page of any length.
LongPages == [kinds |-> "pages", limited |-> FALSE, budget |-> 0]

Outcomes(url) ==
  IF faultModel.limited /\ faultModel.budget = 0 THEN {Healthy(url)}
  ELSE IF faultModel.kinds = "full" THEN FullOutcomes(url)
  ELSE IF faultModel.kinds = "pages" THEN {Healthy(url)} \cup ErrorPages
  ELSE BasicOutcomes(url)

\* The upstream after it produced outcome o.
AfterOutcome(url, o) ==
  IF faultModel.limited /\ o # Healthy(url)
    THEN [faultModel EXCEPT !.budget = @ - 1]
    ELSE faultModel

\* ------------------------------------------------------------ fetchOpenFda
NoValue == [hasResults |-> FALSE, results |-> <<>>]

Resolve(value) == [ok |-> TRUE, value |-> value, message |-> <<>>]
Reject(message) == [ok |-> FALSE, value |-> NoValue, message |-> message]

\* JSON.parse(data): the parsed object, or a SyntaxError.
JSONparse(body) ==
  IF body.isJson
    THEN Resolve([hasResults |-> body.hasResults, results |-> body.results])
    ELSE Reject(<<"Unexpected", "token">>)

\* data.slice(0, end)
slice(data, end) == SubSeq(data, 1, Min(end, Len(data)))

Ellipsis == <<".", ".", ".">>

\* Variant: the whole body, whatever its length.
SnippetWhole(body) == body.words

\* data && data.length > 500 ? data.slice(0, 500) + "..." : data
\* (the length is that of the body's text: characters for the error pages,
\* and the few words of the short bodies, which are never cut)
Snippet(body) ==
  IF Len(body.words) > SnippetLimit
    THEN slice(body.words, SnippetLimit) \o Ellipsis
    ELSE body.words

\* The status test of the "end" handler.
IsErrorStatus(status) == status >= 400

\* How the promise of one attempt settles for an upstream outcome.
Settle(o) ==
  IF o.kind = "error" THEN Reject(o.message)
  ELSE IF o.kind = "timeout" THEN Reject(<<"Request", "timeout">>)
  ELSE IF IsErrorStatus(o.status)
    THEN Reject(<<"HTTP", ToString(o.status)>> \o Snippet(o.body))
  ELSE JSONparse(o.body)

\* Variant: the exponent taken from attempt instead of attempt - 1.
BackoffFromAttempt(attempt) == BackoffBase * Pow2(attempt)

\* backoff = 700 * Math.pow(2, attempt - 1)
Backoff(attempt) == BackoffBase * Pow2(attempt - 1)

\* Variant: gives up one attempt early.
IsLastAttemptEarly(f) == f.attempt >= f.attempts - 1

\* attempt === attempts
IsLastAttempt(f) == f.attempt = f.attempts

NoCall ==
  [st |-> "none", url |-> NoUrl, attempts |-> 0, attempt |-> 0,
   result |-> NoValue, err |-> <<>>]

quickTest == Url("food", FALSE, 1, 0)

NoExchange == [attempt |-> 0, outcome |-> TransportError(<<>>)]

InFlightOf(r) == {m \in net : m.client = r}

\* https.get(url, ...): one more request on the wire.
Issue(r, url, attempt) ==
  /\ net' = net \cup {[client |-> r, url |-> url, attempt |-> attempt]}
  /\ probes' = [probes EXCEPT ![r] = IF url = quickTest THEN @ + 1 ELSE @]
  /\ sent' = [sent EXCEPT ![r] = IF attempt = 1 THEN 1 ELSE @ + 1]

\* Variant: a request answered with an error status is left on the wire.
FinishKeepsRejected(r, o) ==
  IF o.kind = "response" /\ o.status >= 400 THEN net ELSE net \ {m \in net : m.client = r}

\* The requests still on the wire once r's request has ended, failed or timed
\* out (the timeout handler destroys the request).
Finish(r, o) == net \ InFlightOf(r)

\* fetchOpenFda(url, attempts): attempts = attempts || 3, first attempt sent.
CallFetchOpenFda(r, url, n) ==
  /\ fo' = [fo EXCEPT ![r] =
              [st |-> "inflight", url |-> url,
               attempts |-> IF n = 0 THEN DefaultAttempts ELSE n,
               attempt |-> 1, result |-> NoValue, err |-> <<>>]]
  /\ waits' = [waits EXCEPT ![r] = <<>>]
  /\ served' = [served EXCEPT ![r] = NoExchange]
  /\ Issue(r, url, 1)

\* The request of the running attempt completes: the promise settles, and the
\* loop returns, throws, or schedules the backoff.
Respond(r) ==
  /\ fo[r].st = "inflight"
  /\ \E m \in InFlightOf(r), o \in Outcomes(fo[r].url) :
       LET s == Settle(o) IN
       /\ net' = Finish(r, o)
       /\ faultModel' = AfterOutcome(fo[r].url, o)
       /\ IF s.ok
            THEN /\ fo' = [fo EXCEPT ![r].st = "returned", ![r].result = s.value]
                 /\ waits' = waits
                 /\ served' = [served EXCEPT ![r] = [attempt |-> m.attempt, outcome |-> o]]
            ELSE IF IsLastAttempt(fo[r])
              THEN /\ fo' = [fo EXCEPT ![r].st = "threw", ![r].err = s.message]
                   /\ waits' = waits
                   /\ served' = [served EXCEPT ![r] = [attempt |-> m.attempt, outcome |-> o]]
              ELSE /\ fo' = [fo EXCEPT ![r].st = "backoff"]
                   /\ waits' = [waits EXCEPT ![r] = Append(@, Backoff(fo[r].attempt))]
                   /\ served' = served
  /\ UNCHANGED <<avail, pc, errors, foodResults, drugResults,
                 retryFood, retryDrug, response, fa, reqLog, calls, probes, sent, failed>>
  /\ UNCHANGED <<clientVars, dateVars>>

\* The backoff timer fires: attempt++ and the next request is sent.
BackoffElapsed(r) ==
  /\ fo[r].st = "backoff"
  /\ fo' = [fo EXCEPT ![r].st = "inflight", ![r].attempt = @ + 1]
  /\ Issue(r, fo[r].url, fo[r].attempt + 1)
  /\ UNCHANGED <<avail, faultModel, pc, errors, foodResults, drugResults,
                 retryFood, retryDrug, response, fa, reqLog, waits, calls, failed, served>>
  /\ UNCHANGED <<clientVars, dateVars>>

\* --------------------------------------------------------- fetchAllOpenFda
NoFrame ==
  [st |-> "none", base |-> "none", maxRecords |-> 0, pageSize |-> 0,
   aggregated |-> <<>>, skip |-> 0, take |-> 0, err |-> <<>>]

\* Variant: always asks for a whole page.
TakeWholePage(f) == f.pageSize

\* take = Math.min(pageSize, maxRecords - aggregated.length)
Take(f) == Min(f.pageSize, f.maxRecords - Len(f.aggregated))

\* page = Array.isArray(data && data.results) ? data.results : []
PageOf(data) == IF data.hasResults THEN data.results ELSE <<>>

\* Variant: the short-page break is missing.
IsNeverShortPage(page, take) == FALSE

\* page.length < take
IsShortPage(page, take) == Len(page) < take

\* The frame on entry: aggregated = [], skip = 0.
EnterFrame(base, maxRecords, pageSize) ==
  [st |-> "loop", base |-> base, maxRecords |-> maxRecords,
   pageSize |-> pageSize, aggregated |-> <<>>, skip |-> 0,
   take |-> 0, err |-> <<>>]

CallRecord(base, maxRecords, pageSize) ==
  [base |-> base, maxRecords |-> maxRecords, pageSize |-> pageSize]

\* fetchAllOpenFda(baseUrl, maxRecords, pageSize) is entered.
CallFetchAllOpenFda(r, base, maxRecords, pageSize) ==
  /\ fa' = [fa EXCEPT ![r] = EnterFrame(base, maxRecords, pageSize)]
  /\ reqLog' = [reqLog EXCEPT ![r] = <<>>]
  /\ calls' = [calls EXCEPT ![r] = Append(@, CallRecord(base, maxRecords, pageSize))]

\* The while test; a further page is requested or the aggregate is returned.
FetchAllLoop(r) ==
  /\ fa[r].st = "loop"
  /\ IF Len(fa[r].aggregated) < fa[r].maxRecords
       THEN LET take == Take(fa[r])
                url == Url(fa[r].base, TRUE, take, fa[r].skip) IN
            /\ fa' = [fa EXCEPT ![r].st = "await", ![r].take = take]
            /\ CallFetchOpenFda(r, url, 0)
            /\ reqLog' = [reqLog EXCEPT ![r] =
                 Append(@, [limit |-> take, skip |-> fa[r].skip,
                            had |-> Len(fa[r].aggregated), got |-> -1])]
       ELSE /\ fa' = [fa EXCEPT ![r].st = "returned"]
            /\ UNCHANGED <<fo, net, probes, sent, waits, served, reqLog>>
  /\ UNCHANGED <<avail, faultModel, pc, errors, foodResults, drugResults,
                 retryFood, retryDrug, response, calls, failed>>
  /\ UNCHANGED <<clientVars, dateVars>>

\* fetchOpenFda returned a page: break on an empty or short page, otherwise
\* advance skip and start the politeness delay.
FetchAllPage(r) ==
  /\ fa[r].st = "await"
  /\ fo[r].st = "returned"
  /\ LET page == PageOf(fo[r].result)
         last == Len(reqLog[r]) IN
     /\ reqLog' = [reqLog EXCEPT ![r][last].got = Len(page)]
     /\ IF Len(page) = 0
          THEN fa' = [fa EXCEPT ![r].st = "returned"]
          ELSE IF IsShortPage(page, fa[r].take)
            THEN fa' = [fa EXCEPT ![r].st = "returned",
                                  ![r].aggregated = @ \o page]
            ELSE fa' = [fa EXCEPT ![r].st = "polite",
                                  ![r].aggregated = @ \o page,
                                  ![r].skip = @ + Len(page)]
  /\ fo' = [fo EXCEPT ![r] = NoCall]
  /\ UNCHANGED <<avail, faultModel, net, pc, errors, foodResults, drugResults,
                 retryFood, retryDrug, response, waits, calls, probes, sent, failed, served>>
  /\ UNCHANGED <<clientVars, dateVars>>

\* fetchOpenFda threw: catch (e) { throw e }.
FetchAllRethrow(r) ==
  /\ fa[r].st = "await"
  /\ fo[r].st = "threw"
  /\ fa' = [fa EXCEPT ![r].st = "threw", ![r].err = fo[r].err]
  /\ fo' = [fo EXCEPT ![r] = NoCall]
  /\ UNCHANGED <<avail, faultModel, net, pc, errors, foodResults, drugResults,
                 retryFood, retryDrug, response, reqLog, waits, calls, probes, sent, failed,
                 served>>
  /\ UNCHANGED <<clientVars, dateVars>>

\* The 200 ms politeness delay is over.
PoliteElapsed(r) ==
  /\ fa[r].st = "polite"
  /\ fa' = [fa EXCEPT ![r].st = "loop"]
  /\ UNCHANGED <<avail, faultModel, net, pc, errors, foodResults, drugResults,
                 retryFood, retryDrug, response, fo, reqLog, waits, calls, probes, sent,
                 failed, served>>
  /\ UNCHANGED <<clientVars, dateVars>>

\* ------------------------------------------------- app.get("/api/recalls")
NoResponse ==
  [status |-> 0, count |-> 0, results |-> <<>>, hasErrors |-> FALSE,
   errors |-> <<>>, retried |-> FALSE, error |-> "", details |-> <<>>,
   message |-> ""]

\* normalize(item, type); the fields copied from the raw item stay in original.
normalize(item, type) == [type |-> type, original |-> item]

NormalizeAll(items, type) == [i \in 1..Len(items) |-> normalize(items[i], type)]

\* Variant: drug records before food records.
unifiedDrugFirst(food, drug) ==
  NormalizeAll(drug, "Drug") \o NormalizeAll(food, "Food")

\* [...food.map(normalize Food), ...drug.map(normalize Drug)]
unified(food, drug) == NormalizeAll(food, "Food") \o NormalizeAll(drug, "Drug")

\* { count, results [, retried] } and, if errors.length, errors
payload(results, errs, retried) ==
  [status |-> 200, count |-> Len(results), results |-> results,
   hasErrors |-> Len(errs) > 0, errors |-> IF Len(errs) > 0 THEN errs ELSE <<>>,
   retried |-> retried, error |-> "", details |-> <<>>, message |-> ""]

\* res.status(502).json({ error, details: errors, message })
BadGateway(errs) ==
  [status |-> 502, count |-> 0, results |-> <<>>, hasErrors |-> FALSE,
   errors |-> <<>>, retried |-> FALSE,
   error |-> "Both openFDA endpoints failed", details |-> errs,
   message |-> "Unable to fetch food and drug recall data. Please check network connectivity."]

\* Variant: the retry pass answers with whatever it fetched, nothing included.
hasRecordsAlways(food, drug) == TRUE

\* retryFood.length || retryDrug.length
hasRecords(food, drug) == Len(food) > 0 \/ Len(drug) > 0

\* reason.includes(token), on messages kept as sequences of words
Includes(reason, token) == \E i \in 1..Len(reason) : reason[i] = token

NetworkTokens == {"ECONNREFUSED", "ETIMEDOUT", "ENOTFOUND", "socket", "TLS"}

hasNetworkError(errs) ==
  \E i \in 1..Len(errs) : \E t \in NetworkTokens : Includes(errs[i].reason, t)

FaDone(r) == fa[r].st \in {"returned", "threw"}

\* Variant: the records of the pages fetched before the failure are kept.
ResultOfKeepsPages(f) == f.aggregated

\* The value an awaited fetchAllOpenFda leaves in the variable initialised [].
ResultOf(f) == IF f.st = "returned" THEN f.aggregated ELSE <<>>

\* Variant: the catch block records nothing.
CatchSwallows(errs, endpoint, f) == errs

\* catch (e) { errors.push({ endpoint, reason: String(e.message) }) }
CatchInto(errs, endpoint, f) ==
  IF f.st = "threw"
    THEN Append(errs, [endpoint |-> endpoint, reason |-> f.err])
    ELSE errs

\* History of the fetches that threw to the handler: (pass, endpoint) with
\* pass 1 the first pass, 2 the retry pass, 0 the connectivity probe.
Threw(log, pass, endpoint, f) ==
  IF f.st = "threw" THEN log \cup {<<pass, endpoint>>} ELSE log

\* A request arrives: errors = [], both result lists [], the food fetch starts.
Receive(r) ==
  /\ pc[r] = "idle"
  /\ pc' = [pc EXCEPT ![r] = "food"]
  /\ errors' = [errors EXCEPT ![r] = <<>>]
  /\ foodResults' = [foodResults EXCEPT ![r] = <<>>]
  /\ drugResults' = [drugResults EXCEPT ![r] = <<>>]
  /\ CallFetchAllOpenFda(r, "food", FirstMaxRecords, FirstPageSize)
  /\ UNCHANGED <<avail, faultModel, net, retryFood, retryDrug, response, fo, waits,
                 probes, sent, failed, served>>
  /\ UNCHANGED <<clientVars, dateVars>>

\* The food fetch returned or threw; the 250 ms pause starts.
FoodDone(r) ==
  /\ pc[r] = "food"
  /\ FaDone(r)
  /\ foodResults' = [foodResults EXCEPT ![r] = ResultOf(fa[r])]
  /\ errors' = [errors EXCEPT ![r] = CatchInto(@, "food", fa[r])]
  /\ failed' = [failed EXCEPT ![r] = Threw(@, 1, "food", fa[r])]
  /\ pc' = [pc EXCEPT ![r] = "pause"]
  /\ fa' = [fa EXCEPT ![r] = NoFrame]
  /\ UNCHANGED <<avail, faultModel, net, drugResults, retryFood, retryDrug, response, fo,
                 reqLog, waits, calls, probes, sent, served>>
  /\ UNCHANGED <<clientVars, dateVars>>

\* The pause is over; the drug fetch starts.
PauseElapsed(r) ==
  /\ pc[r] = "pause"
  /\ pc' = [pc EXCEPT ![r] = "drug"]
  /\ CallFetchAllOpenFda(r, "drug", FirstMaxRecords, FirstPageSize)
  /\ UNCHANGED <<avail, faultModel, net, errors, foodResults, drugResults,
                 retryFood, retryDrug, response, fo, waits, probes, sent, failed, served>>
  /\ UNCHANGED <<clientVars, dateVars>>

\* The drug fetch returned or threw: answer 200 with the payload, or, when
\* both lists are empty, answer 502 or send the connectivity probe.
DrugDone(r) ==
  /\ pc[r] = "drug"
  /\ FaDone(r)
  /\ LET drug == ResultOf(fa[r])
         errs == CatchInto(errors[r], "drug", fa[r]) IN
     /\ drugResults' = [drugResults EXCEPT ![r] = drug]
     /\ errors' = [errors EXCEPT ![r] = errs]
     /\ failed' = [failed EXCEPT ![r] = Threw(@, 1, "drug", fa[r])]
     /\ fa' = [fa EXCEPT ![r] = NoFrame]
     /\ IF Len(foodResults[r]) = 0 /\ Len(drug) = 0
          THEN IF ~hasNetworkError(errs)
                 THEN /\ pc' = [pc EXCEPT ![r] = "probe"]
                      /\ CallFetchOpenFda(r, quickTest, ProbeAttempts)
                      /\ UNCHANGED response
                 ELSE /\ pc' = [pc EXCEPT ![r] = "done"]
                      /\ response' = [response EXCEPT ![r] = BadGateway(errs)]
                      /\ UNCHANGED <<fo, net, probes, sent, waits, served>>
          ELSE /\ pc' = [pc EXCEPT ![r] = "done"]
               /\ response' = [response EXCEPT ![r] =
                    payload(unified(foodResults[r], drug), errs, FALSE)]
               /\ UNCHANGED <<fo, net, probes, sent, waits, served>>
  /\ UNCHANGED <<avail, faultModel, foodResults, retryFood, retryDrug, reqLog, calls>>
  /\ UNCHANGED <<clientVars, dateVars>>

\* The probe returned (retry the food endpoint) or threw (answer 502).
ProbeDone(r) ==
  /\ pc[r] = "probe"
  /\ fo[r].st \in {"returned", "threw"}
  /\ fo' = [fo EXCEPT ![r] = NoCall]
  /\ failed' = [failed EXCEPT ![r] = Threw(@, 0, "probe", fo[r])]
  /\ IF fo[r].st = "returned"
       THEN /\ pc' = [pc EXCEPT ![r] = "retryFood"]
            /\ CallFetchAllOpenFda(r, "food", RetryMaxRecords, RetryPageSize)
            /\ UNCHANGED response
       ELSE /\ pc' = [pc EXCEPT ![r] = "done"]
            /\ response' = [response EXCEPT ![r] = BadGateway(errors[r])]
            /\ UNCHANGED <<fa, reqLog, calls>>
  /\ UNCHANGED <<avail, faultModel, net, errors, foodResults, drugResults,
                 retryFood, retryDrug, waits, probes, sent, served>>
  /\ UNCHANGED <<clientVars, dateVars>>

\* The food retry returned, or threw and .catch gave []; the drug retry starts.
RetryFoodDone(r) ==
  /\ pc[r] = "retryFood"
  /\ FaDone(r)
  /\ retryFood' = [retryFood EXCEPT ![r] = ResultOf(fa[r])]
  /\ failed' = [failed EXCEPT ![r] = Threw(@, 2, "food", fa[r])]
  /\ pc' = [pc EXCEPT ![r] = "retryDrug"]
  /\ CallFetchAllOpenFda(r, "drug", RetryMaxRecords, RetryPageSize)
  /\ UNCHANGED <<avail, faultModel, net, errors, foodResults, drugResults, retryDrug,
                 response, fo, waits, probes, sent, served>>
  /\ UNCHANGED <<clientVars, dateVars>>

\* The drug retry returned, or threw and .catch gave []: answer 200 with the
\* retry records marked retried, or 502 when there are none.
RetryDrugDone(r) ==
  /\ pc[r] = "retryDrug"
  /\ FaDone(r)
  /\ LET retried == ResultOf(fa[r]) IN
     /\ retryDrug' = [retryDrug EXCEPT ![r] = retried]
     /\ response' = [response EXCEPT ![r] =
          IF hasRecords(retryFood[r], retried)
            THEN payload(unified(retryFood[r], retried), errors[r], TRUE)
            ELSE BadGateway(errors[r])]
  /\ failed' = [failed EXCEPT ![r] = Threw(@, 2, "drug", fa[r])]
  /\ pc' = [pc EXCEPT ![r] = "done"]
  /\ fa' = [fa EXCEPT ![r] = NoFrame]
  /\ UNCHANGED <<avail, faultModel, net, errors, foodResults, drugResults,
                 retryFood, fo, reqLog, waits, calls, probes, sent, served>>
  /\ UNCHANGED <<clientVars, dateVars>>

\* ------------------------------------------------------- parseReportDate
\* Strings whose content matters are sequences of one-character strings.
\* null; normalize (x || null) and the page (x || "") treat null and the empty
\* string alike, and so does the model.
Null == <<>>

DigitChars == <<"0", "1", "2", "3", "4", "5", "6", "7", "8", "9">>

IsDigit(c) == \E i \in 1..10 : DigitChars[i] = c

DigitVal(c) == (CHOOSE i \in 1..10 : DigitChars[i] = c) - 1

AllDigits(s) == \A i \in 1..Len(s) : IsDigit(s[i])

\* The number a string of digits denotes.
RECURSIVE NumberOf(_)
NumberOf(s) ==
  IF s = <<>> THEN 0
  ELSE NumberOf(SubSeq(s, 1, Len(s) - 1)) * 10 + DigitVal(s[Len(s)])

\* n as w digits, zero-padded (padStart).
RECURSIVE Pad(_, _)
Pad(n, w) ==
  IF w = 0 THEN <<>> ELSE Pad(n \div 10, w - 1) \o <<DigitChars[(n % 10) + 1]>>

IsLeapYear(y) == (y % 4 = 0 /\ y % 100 # 0) \/ y % 400 = 0

DaysInMonth(y, m) ==
  IF m = 2 THEN (IF IsLeapYear(y) THEN 29 ELSE 28)
  ELSE IF m \in {4, 6, 9, 11} THEN 30 ELSE 31

InvalidDate == [valid |-> FALSE, y |-> 0, m |-> 0, d |-> 0]

\* new Date(`${y}-${m}-${d}`) on Node: the date-only ISO form needs digits, a
\* month 01..12 and a day 01..31; a day past the end of the month is carried
\* into the next month; anything else (the strings used here hold no other
\* readable date) is an Invalid Date.
NewDate(y, m, d) ==
  IF ~(AllDigits(y) /\ AllDigits(m) /\ AllDigits(d)) THEN InvalidDate
  ELSE LET yy == NumberOf(y)
           mm == NumberOf(m)
           dd == NumberOf(d) IN
       IF mm \notin 1..12 \/ dd \notin 1..31 THEN InvalidDate
       ELSE IF dd <= DaysInMonth(yy, mm)
              THEN [valid |-> TRUE, y |-> yy, m |-> mm, d |-> dd]
              ELSE [valid |-> TRUE, y |-> yy, m |-> mm + 1,
                    d |-> dd - DaysInMonth(yy, mm)]

MidnightUTC == <<"T", "0", "0", ":", "0", "0", ":", "0", "0", ".", "0", "0", "0", "Z">>

\* Date.prototype.toISOString of a valid date at midnight UTC.
toISOString(date) ==
  Pad(date.y, 4) \o <<"-">> \o Pad(date.m, 2) \o <<"-">> \o Pad(date.d, 2)
    \o MidnightUTC

\* s.length !== 8, negated
IsEightLong(s) == Len(s) = 8

\* parseReportDate(val), val already String(val); toISOString of an Invalid
\* Date throws a RangeError, which the catch turns into null.
parseReportDate(s) ==
  IF ~IsEightLong(s) THEN Null
  ELSE LET date == NewDate(SubSeq(s, 1, 4), SubSeq(s, 5, 6), SubSeq(s, 7, 8)) IN
       IF date.valid THEN toISOString(date) ELSE Null

NotNormalized == [done |-> FALSE, value |-> Null]

\* report_date: parseReportDate(item.report_date) || null
Normalize ==
  /\ ~report_date.done
  /\ report_date' = [done |-> TRUE, value |-> parseReportDate(val)]
  /\ UNCHANGED <<val, serverVars, clientVars>>

\* No record is being normalized.
NoDate ==
  /\ val = <<>>
  /\ report_date = NotNormalized

\* The years, months and days the tokens are built from: a leap year and a
\* common year, every month and the values around it, the days around the
\* ends of the months.
TokenYears == {2020, 2021}

TokenMonths == 0..13

TokenDays == {0, 1, 15, 28, 29, 30, 31, 32}

\* String(item.report_date) for the values a record can carry: eight digits,
\* eight characters that are not a date, other lengths, and "undefined" for a
\* record without the field.
DateTokens ==
  {Pad(y, 4) \o Pad(m, 2) \o Pad(d, 2) :
     y \in TokenYears, m \in TokenMonths, d \in TokenDays}
  \cup {<<"u", "n", "k", "n", "o", "w", "n", "!">>,
        <<"2", "0", "2", "1", "0", "3", "1">>,
        <<"2", "0", "2", "1", "-", "0", "3", "-", "1", "5">>,
        <<"u", "n", "d", "e", "f", "i", "n", "e", "d">>,
        <<>>}

\* ------------------------------------------------ the page: strings, records
LowerLetters ==
  <<"a", "b", "c", "d", "e", "f", "g", "h", "i", "j", "k", "l", "m",
    "n", "o", "p", "q", "r", "s", "t", "u", "v", "w", "x", "y", "z">>

UpperLetters ==
  <<"A", "B", "C", "D", "E", "F", "G", "H", "I", "J", "K", "L", "M",
    "N", "O", "P", "Q", "R", "S", "T", "U", "V", "W", "X", "Y", "Z">>

IsLower(c) == \E i \in 1..26 : LowerLetters[i] = c

IsUpper(c) == \E i \in 1..26 : UpperLetters[i] = c

LetterIndex(c) ==
  CHOOSE i \in 1..26 : LowerLetters[i] = c \/ UpperLetters[i] = c

\* Variant: the comparison keeps the case of the letters.
toUpperCaseKeepsCase(s) == s

\* String.prototype.toUpperCase
toUpperCase(s) ==
  [i \in 1..Len(s) |-> IF IsLower(s[i]) THEN UpperLetters[LetterIndex(s[i])] ELSE s[i]]

\* String.prototype.toLowerCase
toLowerCase(s) ==
  [i \in 1..Len(s) |-> IF IsUpper(s[i]) THEN LowerLetters[LetterIndex(s[i])] ELSE s[i]]

\* String.prototype.includes
includes(s, part) ==
  \E i \in 0..(Len(s) - Len(part)) : SubSeq(s, i + 1, i + Len(part)) = part

\* Collation weight of a character: punctuation before digits before letters,
\* letters alphabetically whatever their case.
Punctuation == <<" ", "-", ":", ".", "/">>

Weight(c) ==
  IF IsLower(c) \/ IsUpper(c) THEN 20 + LetterIndex(c)
  ELSE IF IsDigit(c) THEN 10 + DigitVal(c)
  ELSE IF \E i \in 1..5 : Punctuation[i] = c
         THEN CHOOSE i \in 1..5 : Punctuation[i] = c
  ELSE 0

\* From position i on: the first position where the weights of a and b
\* differ decides, and a proper prefix sorts before the longer string.
RECURSIVE CompareWeights(_, _, _)
CompareWeights(a, b, i) ==
  IF i > Len(a) /\ i > Len(b) THEN 0
  ELSE IF i > Len(a) THEN -1
  ELSE IF i > Len(b) THEN 1
  ELSE LET wa == Weight(a[i])
           wb == Weight(b[i])
       IN IF wa < wb THEN -1
          ELSE IF wa > wb THEN 1
          ELSE CompareWeights(a, b, i + 1)

\* Strings of equal weights: the first difference in case, lower case first.
RECURSIVE CompareCase(_, _, _)
CompareCase(a, b, i) ==
  IF i > Len(a) \/ i > Len(b) THEN 0
  ELSE IF a[i] = b[i] THEN CompareCase(a, b, i + 1)
  ELSE IF IsLower(a[i]) THEN -1 ELSE 1

\* String.prototype.localeCompare in the default locale: -1, 0 or 1.
localeCompare(a, b) ==
  IF a = b THEN 0
  ELSE LET byWeight == CompareWeights(a, b, 1)
       IN IF byWeight # 0 THEN byWeight ELSE CompareCase(a, b, 1)

ClassI == <<"C", "l", "a", "s", "s", " ", "I">>

ClassIUpper == <<"C", "L", "A", "S", "S", " ", "I">>

ClassII == <<"C", "l", "a", "s", "s", " ", "I", "I">>

ClassIII == <<"C", "l", "a", "s", "s", " ", "I", "I", "I">>

\* The option value that switches a filter off.
All == <<"A", "l", "l">>

\* The option added for records without a classification.
NotAvailable == <<"N", "/", "A">>

\* A unified record as normalize builds it; it carries no lat/lon (0 stands
\* for the missing fields), and country defaults to USA.
Rec(id, type, token, classification, description, firm, address_1, city, state) ==
  [id |-> id, type |-> type, report_date |-> parseReportDate(token),
   raw_report_date |-> token, classification |-> classification,
   product_description |-> description, recalling_firm |-> firm,
   address_1 |-> address_1, city |-> city, state |-> state, country |-> "USA",
   lat |-> 0, lon |-> 0]

\* The records the server can answer with: two cases of one classification,
\* a record without classification, a record without report date, records of
\* one address, the same date twice.
Catalogue ==
  {Rec(1, "Food", <<"2", "0", "2", "1", "0", "3", "1", "5">>, ClassI,
       <<"a", "b">>, <<"x">>, "1 Main St", "Austin", "TX"),
   Rec(2, "Drug", <<"2", "0", "2", "0", "0", "1", "0", "1">>, ClassIUpper,
       <<"B">>, <<"y">>, "", "", ""),
   Rec(3, "Food", <<>>, ClassII,
       <<"a">>, Null, "1 Main St", "Austin", "TX"),
   Rec(4, "Drug", <<"2", "0", "2", "1", "0", "3", "1", "5">>, Null,
       <<"b">>, <<"x">>, "", "", ""),
   Rec(5, "Food", <<"2", "0", "2", "1", "1", "2", "3", "1">>, ClassIII,
       Null, <<"y">>, "", "", "")}

RecordById(id) == CHOOSE rec \in Catalogue : rec.id = id

\* The sequences of up to n different records.
RECURSIVE Arrays(_)
Arrays(n) ==
  IF n = 0 THEN {<<>>}
  ELSE Arrays(n - 1) \cup
       {Append(a, rec) : a \in {b \in Arrays(n - 1) : Len(b) = n - 1},
                         rec \in Catalogue}

ApiResults(n) ==
  {a \in Arrays(n) : \A i, j \in 1..Len(a) : i # j => a[i].id # a[j].id}

\* [address_1, city, state, country].filter(Boolean).join(", "), kept as the
\* sequence of its parts; the empty sequence is the empty string.
constructAddress(rec) ==
  SelectSeq(<<rec.address_1, rec.city, rec.state, rec.country>>,
            LAMBDA part : part # "")

Addresses == {constructAddress(rec) : rec \in Catalogue}

\* ------------------------------------------------------ the page: helpers
\* The page's state as one value, so that the synchronous code between two
\* awaits composes as functions on it.
Here ==
  [ld |-> ld, rawResults |-> rawResults, controls |-> controls,
   listEl |-> listEl, countEl |-> countEl, markers |-> markers,
   markersLayer |-> markersLayer,
   messages |-> messages, geocache |-> geocache, localStorage |-> localStorage,
   geocodeQueue |-> geocodeQueue, geocodeRunning |-> geocodeRunning,
   loops |-> loops, geoNet |-> geoNet, enq |-> enq, taken |-> taken,
   delivered |-> delivered, geoWaits |-> geoWaits, pageFaults |-> pageFaults]

\* The state the synchronous code ended in becomes the next state.
Commit(S0) ==
  \E S \in {S0} :
  /\ ld' = S.ld
  /\ rawResults' = S.rawResults
  /\ controls' = S.controls
  /\ listEl' = S.listEl
  /\ countEl' = S.countEl
  /\ markers' = S.markers
  /\ markersLayer' = S.markersLayer
  /\ messages' = S.messages
  /\ geocache' = S.geocache
  /\ localStorage' = S.localStorage
  /\ geocodeQueue' = S.geocodeQueue
  /\ geocodeRunning' = S.geocodeRunning
  /\ loops' = S.loops
  /\ geoNet' = S.geoNet
  /\ enq' = S.enq
  /\ taken' = S.taken
  /\ delivered' = S.delivered
  /\ geoWaits' = S.geoWaits
  /\ pageFaults' = S.pageFaults

\* body applied to the value of x: x is worked out once, however often body
\* reads it.
Bind(x, body(_)) == CHOOSE result \in {body(value) : value \in {x}} : TRUE

\* showMessage(msg, isError)
showMessage(S, msg, isError) ==
  [S EXCEPT !.messages = [text |-> msg, isError |-> isError]]

\* A geocache entry: nothing, the null of a lookup without match, or { lat, lon }.
Undefined == [kind |-> "undefined", lat |-> 0, lon |-> 0]

NullValue == [kind |-> "null", lat |-> 0, lon |-> 0]

Coordinates(lat, lon) == [kind |-> "object", lat |-> lat, lon |-> lon]

\* if (cached): null and undefined are falsy, an object is truthy
Truthy(value) == value.kind = "object"

\* { lat: parseFloat(hit.lat), lon: parseFloat(hit.lon) } of the first match
\* the geocoder has for the address.
FirstHit(q) == IF Len(q) > 1 THEN Coordinates(30, 97) ELSE Coordinates(38, 77)

\* markersLayer.clearLayers(); markers.clear()
clearMarkers(S) == [S EXCEPT !.markersLayer = <<>>, !.markers = {}]

\* addMarkerFor(rec, lat, lon): no marker when lat or lon is falsy; otherwise
\* a new marker is added to the layer and stored under rec.id in the map.
addMarkerFor(S, id, lat, lon) ==
  IF lat = 0 \/ lon = 0 THEN S
  ELSE [S EXCEPT !.markersLayer = Append(@, id), !.markers = @ \cup {id}]

\* ------------------------------------------------- filtering and sorting
\* (i.classification || "").toUpperCase() === classSel.toUpperCase()
MatchesClass(i, classSel) ==
  toUpperCase(i.classification) = toUpperCase(classSel)

\* ((i.product_description || "") + " " + (i.recalling_firm || ""))
\*   .toLowerCase().includes(searchTerm)
MatchesSearch(i, searchTerm) ==
  includes(toLowerCase(i.product_description \o <<" ">> \o i.recalling_firm),
           searchTerm)

\* The three filters of applyFiltersAndRender, in their order.
Filtered(items, c) ==
  LET searchTerm == toLowerCase(c.search)
      byType == IF c.type # "All"
                  THEN SelectSeq(items, LAMBDA i : i.type = c.type) ELSE items
      byClass == IF c.classification # All
                   THEN SelectSeq(byType, LAMBDA i : MatchesClass(i, c.classification))
                   ELSE byType
  IN IF searchTerm # <<>>
       THEN SelectSeq(byClass, LAMBDA i : MatchesSearch(i, searchTerm))
       ELSE byClass

\* Variant: date_desc compares in the order of date_asc.
compareOldestFirst(sort, a, b) ==
  IF sort \in {"date_desc", "date_asc"}
    THEN localeCompare(a.report_date, b.report_date)
  ELSE IF sort = "class_desc"
    THEN localeCompare(a.classification, b.classification)
  ELSE IF sort = "class_asc"
    THEN localeCompare(b.classification, a.classification)
  ELSE 0

\* Variant: the classification keys sort in the direction of their names.
compareClassAsNamed(sort, a, b) ==
  IF sort = "date_desc" THEN localeCompare(b.report_date, a.report_date)
  ELSE IF sort = "date_asc" THEN localeCompare(a.report_date, b.report_date)
  ELSE IF sort = "class_desc"
    THEN localeCompare(b.classification, a.classification)
  ELSE IF sort = "class_asc"
    THEN localeCompare(a.classification, b.classification)
  ELSE 0

\* The comparator handed to items.sort
compare(sort, a, b) ==
  IF sort = "date_desc" THEN localeCompare(b.report_date, a.report_date)
  ELSE IF sort = "date_asc" THEN localeCompare(a.report_date, b.report_date)
  ELSE IF sort = "class_desc"
    THEN localeCompare(a.classification, b.classification)
  ELSE IF sort = "class_asc"
    THEN localeCompare(b.classification, a.classification)
  ELSE 0

\* x put into a sorted sequence behind everything that does not sort after it.
RECURSIVE Insert(_, _, _)
Insert(sorted0, x, sort) ==
  Bind(sorted0, LAMBDA sorted :
    IF sorted = <<>> THEN <<x>>
    ELSE IF compare(sort, Head(sorted), x) <= 0
      THEN <<Head(sorted)>> \o Insert(Tail(sorted), x, sort)
    ELSE <<x>> \o sorted)

\* Array.prototype.sort, which is stable.
RECURSIVE Sorted(_, _)
Sorted(items, sort) ==
  IF items = <<>> THEN <<>>
  ELSE Insert(Sorted(SubSeq(items, 1, Len(items) - 1), sort),
              items[Len(items)], sort)

\* items.slice(0, Number(limitSel)) unless limitSel is "all"
Limited(items, limitSel) ==
  IF limitSel # <<"a", "l", "l">>
    THEN SubSeq(items, 1, Min(Len(items), NumberOf(limitSel)))
    ELSE items

Ids(items) == [i \in 1..Len(items) |-> items[i].id]

\* ------------------------------------------------------ the geocode queue
RECURSIVE applyFiltersAndRender(_)

RECURSIVE WhileLoop(_)

\* The callbacks handed to enqueueGeocode: loadData's, which renders again,
\* and applyFiltersAndRender's, which adds the marker of one record.
Rerender == [kind |-> "rerender", rec |-> 0]

Marker(rec) == [kind |-> "marker", rec |-> rec.id]

OutcomeOf(err, value) ==
  IF err THEN "error" ELSE IF Truthy(value) THEN "coords" ELSE "null"

\* A browser in which no DOM or Leaflet call throws and localStorage works.
NoFaults == [throwing |-> {}, storageFails |-> FALSE]

\* The invocations that run code which can throw: loadData's callback always
\* renders (DOM reads such as querySelector(...).value, app.js:235), the
\* marker callback builds a Leaflet marker when it is handed coordinates and
\* only logs or returns otherwise.
CanThrow(item, err, value) ==
  item.cb.kind = "rerender" \/ (~err /\ Truthy(value))

\* This invocation, the next to be recorded, throws before it changed anything.
Throws(S, item, err, value) ==
  /\ CanThrow(item, err, value)
  /\ (Len(S.delivered) + 1) \in S.pageFaults.throwing

\* cb(err) or cb(null, val)
callback(S, item, err, value) ==
  Bind([S EXCEPT !.delivered =
          Append(@, [id |-> item.id, q |-> item.q, kind |-> item.cb.kind,
                     outcome |-> OutcomeOf(err, value)])],
       LAMBDA S1 :
         IF Throws(S, item, err, value) THEN S1
         ELSE IF item.cb.kind = "rerender" THEN applyFiltersAndRender(S1)
         ELSE IF err THEN S1
         ELSE IF Truthy(value)
           THEN addMarkerFor(S1, item.cb.rec, value.lat, value.lon)
         ELSE S1)

Frame(st, item) == [st |-> st, id |-> item.id, q |-> item.q, cb |-> item.cb]

Request(item) == [id |-> item.id, q |-> item.q]

Shift(S0, item, fromCache) ==
  Bind(S0, LAMBDA S :
  [S EXCEPT !.geocodeQueue = Tail(@),
            !.taken = Append(@, [id |-> item.id, q |-> item.q,
                                 fromCache |-> fromCache, waits |-> S.geoWaits])])

\* Variant: the next item is taken without the wait.
AfterItemNoWait(S, item) == WhileLoop(S)

\* await new Promise((r) => setTimeout(r, 1100)): the loop is suspended at
\* the wait that follows the item.
AfterItem(S, item) == [S EXCEPT !.loops = @ \cup {Frame("wait", item)}]

\* Variant: the loop returns with the flag still set.
LoopEndsKeepsFlag(S) == S

\* geocodeRunning = false, the last statement of runGeomQueue
LoopEnds(S) == [S EXCEPT !.geocodeRunning = FALSE]

\* catch (err) { cb(err) }: the callback is handed the error. An exception it
\* throws here leaves runGeomQueue, whose promise rejects: the loop is gone,
\* without the wait and without the assignment that follows the while.
CatchCallback(S0, item) ==
  Bind(S0, LAMBDA S :
    IF Throws(S, item, TRUE, Undefined)
      THEN callback(S, item, TRUE, Undefined)
      ELSE AfterItem(callback(S, item, TRUE, Undefined), item))

\* try { ... cb(null, val) } catch (err) { cb(err) }: an exception thrown by
\* the callback itself is caught like one of the lookup.
TryCallback(S0, item, value) ==
  Bind(S0, LAMBDA S :
    IF Throws(S, item, FALSE, value)
      THEN CatchCallback(callback(S, item, FALSE, value), item)
      ELSE AfterItem(callback(S, item, FALSE, value), item))

\* runGeomQueue from the test of its while loop to its next await: with the
\* queue empty it clears the flag and returns; else it shifts one item and
\* either delivers the cached value and starts the 1.1 s wait, or sends the
\* geocoding request.
WhileLoop(S0) ==
  Bind(S0, LAMBDA S :
    IF S.geocodeQueue = <<>> THEN LoopEnds(S)
    ELSE LET item == Head(S.geocodeQueue)
             cached == S.geocache[item.q]
         IN IF Truthy(cached)
              THEN TryCallback(Shift(S, item, TRUE), item, cached)
              ELSE [Shift(S, item, FALSE)
                      EXCEPT !.geoNet = @ \cup {Request(item)},
                             !.loops = @ \cup {Frame("fetch", item)}])

\* runGeomQueue(), up to its first await
runGeomQueue(S) == WhileLoop([S EXCEPT !.geocodeRunning = TRUE])

\* Variant: every enqueueGeocode starts a loop.
StartsLoopAlways(S) == TRUE

\* Variant: enqueueGeocode never starts the loop.
StartsLoopNever(S) == FALSE

\* if (!geocodeRunning)
StartsLoop(S) == ~S.geocodeRunning

\* enqueueGeocode(q, cb)
enqueueGeocode(S0, q, cb) ==
  Bind(S0, LAMBDA S :
    Bind([S EXCEPT !.enq = @ + 1,
                   !.geocodeQueue = Append(@, [q |-> q, cb |-> cb, id |-> S.enq + 1])],
         LAMBDA S1 : IF StartsLoop(S1) THEN runGeomQueue(S1) ELSE S1))

\* The body of visible.forEach for one record.
PlaceMarker(S0, rec) ==
  Bind(S0, LAMBDA S :
  IF rec.lat # 0 /\ rec.lon # 0 THEN addMarkerFor(S, rec.id, rec.lat, rec.lon)
  ELSE LET addr == constructAddress(rec) IN
       IF addr = <<>> THEN S
       ELSE IF Truthy(S.geocache[addr])
         THEN addMarkerFor(S, rec.id, S.geocache[addr].lat, S.geocache[addr].lon)
       ELSE enqueueGeocode(S, addr, Marker(rec)))

RECURSIVE PlaceMarkers(_, _)
PlaceMarkers(S, recs) ==
  IF recs = <<>> THEN S
  ELSE Bind(PlaceMarker(S, Head(recs)),
            LAMBDA S1 : PlaceMarkers(S1, Tail(recs)))

\* countEl.textContent: the number shown and, when the limit cut the list,
\* "(showing n of m)".
CountText(visible, items) ==
  [count |-> Len(visible), cut |-> Len(items) > Len(visible), of |-> Len(items)]

applyFiltersAndRender(S0) ==
  Bind(S0, LAMBDA S :
    Bind(Sorted(Filtered(S.rawResults, S.controls), S.controls.sort),
         LAMBDA items :
           Bind(Limited(items, S.controls.limit),
                LAMBDA visible :
                  PlaceMarkers(clearMarkers([S EXCEPT !.countEl = CountText(visible, items),
                                                      !.listEl = Ids(visible)]),
                               visible))))

\* ---------------------------------------------------------------- loadData
\* The addresses of the records without coordinates, each once, in the order
\* of their first record (the Set of loadData).
RECURSIVE AddressSet(_)
AddressSet(recs) ==
  IF recs = <<>> THEN <<>>
  ELSE LET before == AddressSet(SubSeq(recs, 1, Len(recs) - 1))
           rec == recs[Len(recs)]
           addr == constructAddress(rec)
       IN IF (rec.lat = 0 \/ rec.lon = 0) /\ addr # <<>>
               /\ \A i \in 1..Len(before) : before[i] # addr
            THEN Append(before, addr) ELSE before

RECURSIVE EnqueueAll(_, _)
EnqueueAll(S, addrs) ==
  IF addrs = <<>> THEN S
  ELSE Bind(enqueueGeocode(S, Head(addrs), Rerender),
            LAMBDA S1 : EnqueueAll(S1, Tail(addrs)))

\* What fetch(API) and resp.json() can give loadData: a failure (rejected
\* fetch, status outside 2xx, body that is no JSON), a body without a results
\* array, or a results array.
ApiFailure == [kind |-> "failure", results |-> <<>>]

ApiNoArray == [kind |-> "noarray", results |-> <<>>]

ApiData(results) == [kind |-> "data", results |-> results]

ApiAnswers(n) == {ApiFailure, ApiNoArray} \cup {ApiData(a) : a \in ApiResults(n)}

\* loadData from the answer of fetch(API) to its end.
LoadDataResponded(answer) ==
  /\ ld = "fetch"
  /\ LET S0 == [Here EXCEPT !.ld = "done"] IN
     IF answer.kind = "failure"
       THEN Commit(showMessage(S0, <<"Failed to load recalls: ", "Server error">>, TRUE))
     ELSE LET S1 == [S0 EXCEPT !.rawResults = answer.results] IN
       IF answer.results = <<>>
         THEN Commit(showMessage(S1, <<"No recalls found for the given range.">>, TRUE))
       ELSE LET addrs == AddressSet(answer.results)
                S2 == showMessage(S1, <<"Loaded", ToString(Len(answer.results)),
                                        "recalls. Geocoding",
                                        ToString(Len(addrs)), "locations...">>, FALSE)
                S3 == EnqueueAll(S2, addrs)
                S4 == showMessage(S3, <<"Loaded", ToString(Len(answer.results)),
                                        "recalls">>, FALSE)
            IN Commit(applyFiltersAndRender(S4))
  /\ UNCHANGED <<serverVars, dateVars>>

\* The options of the classification select: All and what loadData appended.
ClassificationOptions ==
  {All} \cup {IF rawResults[i].classification = Null THEN NotAvailable
              ELSE rawResults[i].classification : i \in 1..Len(rawResults)}

\* The state of the inputs when the page opens.
DefaultControls ==
  [type |-> "All", classification |-> All, sort |-> "date_desc",
   limit |-> <<"4", "5">>, search |-> <<>>]

SortOptions == {"date_desc", "date_asc", "class_desc", "class_asc"}

\* What the user can set the inputs to.
ControlSettings ==
  [type : {"All", "Food", "Drug"}, classification : ClassificationOptions,
   sort : SortOptions, limit : {<<"4", "5">>, <<"a", "l", "l">>},
   search : {<<>>, <<"A">>}]

\* The settings one change or input event away from the present ones.
OneChange ==
  {c \in ControlSettings :
     \/ c = [controls EXCEPT !.type = c.type]
     \/ c = [controls EXCEPT !.classification = c.classification]
     \/ c = [controls EXCEPT !.sort = c.sort]
     \/ c = [controls EXCEPT !.limit = c.limit]
     \/ c = [controls EXCEPT !.search = c.search]} \ {controls}

\* A change of the classification select.
ClassificationChange ==
  {[controls EXCEPT !.classification = cl] : cl \in ClassificationOptions}
    \ {controls}

\* A change or input event of one of the inputs: applyFiltersAndRender.
ControlChanged(c) ==
  /\ enq < MaxEnqueued
  /\ Commit(applyFiltersAndRender([Here EXCEPT !.controls = c]))
  /\ UNCHANGED <<serverVars, dateVars>>

\* ------------------------------------------------------ the loop's awaits
\* What a geocoding request can end in: a first match, an empty array, a
\* status outside 2xx, a rejected fetch or a body that is no JSON.
GeoOutcomes == {"hit", "miss", "status", "rejected"}

\* localStorage.setItem throws (storage full or disabled)
setItemThrows(S) == S.pageFaults.storageFails

\* saveGeocache()
saveGeocache(S) == [S EXCEPT !.localStorage = S.geocache]

\* The geocoding request of a loop ends: on a result the value is cached,
\* saved and handed to the callback, on an error (of the lookup, of the save
\* or of the callback) the callback gets the error; then the 1.1 s wait starts.
GeocodeResponded(f, outcome) ==
  /\ f \in loops
  /\ f.st = "fetch"
  /\ LET S0 == [Here EXCEPT !.loops = @ \ {f}, !.geoNet = @ \ {Request(f)}]
         value == IF outcome = "hit" THEN FirstHit(f.q) ELSE NullValue
         S1 == IF outcome \in {"hit", "miss"}
                 THEN Bind([S0 EXCEPT !.geocache[f.q] = value], LAMBDA S :
                        IF setItemThrows(S) THEN CatchCallback(S, f)
                        ELSE TryCallback(saveGeocache(S), f, value))
                 ELSE CatchCallback(S0, f)
     IN Commit(S1)
  /\ UNCHANGED <<serverVars, dateVars>>

\* The 1.1 s wait of a loop is over: back to the test of the while loop.
WaitElapsed(f) ==
  /\ f \in loops
  /\ f.st = "wait"
  /\ Commit(WhileLoop([Here EXCEPT !.loops = @ \ {f}, !.geoWaits = @ + 1]))
  /\ UNCHANGED <<serverVars, dateVars>>

\* No page is open: the state of the page's variables in the runs of the server.
Closed ==
  [ld |-> "closed", rawResults |-> <<>>, controls |-> DefaultControls,
   listEl |-> <<>>, countEl |-> CountText(<<>>, <<>>), markers |-> {},
   markersLayer |-> <<>>,
   messages |-> [text |-> <<>>, isError |-> FALSE],
   geocache |-> [q \in Addresses |-> Undefined],
   localStorage |-> [q \in Addresses |-> Undefined],
   geocodeQueue |-> <<>>, geocodeRunning |-> FALSE, loops |-> {},
   geoNet |-> {}, enq |-> 0, taken |-> <<>>, delivered |-> <<>>,
   geoWaits |-> 0, pageFaults |-> NoFaults]

\* The page's variables have the values of S.
PageIs(S) ==
  /\ ld = S.ld
  /\ rawResults = S.rawResults
  /\ controls = S.controls
  /\ listEl = S.listEl
  /\ countEl = S.countEl
  /\ markers = S.markers
  /\ markersLayer = S.markersLayer
  /\ messages = S.messages
  /\ geocache = S.geocache
  /\ localStorage = S.localStorage
  /\ geocodeQueue = S.geocodeQueue
  /\ geocodeRunning = S.geocodeRunning
  /\ loops = S.loops
  /\ geoNet = S.geoNet
  /\ enq = S.enq
  /\ taken = S.taken
  /\ delivered = S.delivered
  /\ geoWaits = S.geoWaits
  /\ pageFaults = S.pageFaults

\* --------------------------------------------------------- specifications
\* Source sizes around the record budgets 250 and 500 and the page size 50.
SourceSizes == {0, 1, 50, 260}

\* Food source sizes used when several requests are served at once (the drug
\* source is empty there).
ConcSizes == {0, 50}

\* What is common to every initial state: nothing sent, nothing recorded.
Fresh ==
  /\ net = {}
  /\ errors = [r \in Clients |-> <<>>]
  /\ foodResults = [r \in Clients |-> <<>>]
  /\ drugResults = [r \in Clients |-> <<>>]
  /\ retryFood = [r \in Clients |-> <<>>]
  /\ retryDrug = [r \in Clients |-> <<>>]
  /\ response = [r \in Clients |-> NoResponse]
  /\ fo = [r \in Clients |-> NoCall]
  /\ reqLog = [r \in Clients |-> <<>>]
  /\ waits = [r \in Clients |-> <<>>]
  /\ probes = [r \in Clients |-> 0]
  /\ failed = [r \in Clients |-> {}]
  /\ sent = [r \in Clients |-> 0]
  /\ served = [r \in Clients |-> NoExchange]

\* No request received yet.
Quiet ==
  /\ Fresh
  /\ pc = [r \in Clients |-> "idle"]
  /\ fa = [r \in Clients |-> NoFrame]
  /\ calls = [r \in Clients |-> <<>>]

FetchStep(r) ==
  \/ Respond(r)
  \/ BackoffElapsed(r)
  \/ FetchAllLoop(r)
  \/ FetchAllPage(r)
  \/ FetchAllRethrow(r)
  \/ PoliteElapsed(r)

HandlerStep(r) ==
  \/ Receive(r)
  \/ FoodDone(r)
  \/ PauseElapsed(r)
  \/ DrugDone(r)
  \/ ProbeDone(r)
  \/ RetryFoodDone(r)
  \/ RetryDrugDone(r)

\* One request to /api/recalls, against any upstream behaviour.
Init ==
  /\ PageIs(Closed)
  /\ NoDate
  /\ avail \in [Endpoints -> SourceSizes]
  /\ faultModel = AnyFault
  /\ Quiet

Next == FetchStep(1) \/ HandlerStep(1)

Spec == Init /\ [][Next]_vars

\* Several requests served at once.
InitConc ==
  /\ PageIs(Closed)
  /\ NoDate
  /\ avail \in {[e \in Endpoints |-> IF e = "food" THEN n ELSE 0] : n \in ConcSizes}
  /\ faultModel = FewFaults(MaxFaults)
  /\ Quiet

NextConc == \E r \in Clients : FetchStep(r) \/ HandlerStep(r)

SpecConc == InitConc /\ [][NextConc]_vars

\* One bare call fetchAllOpenFda(food, M, P) over a source of N records, for
\* small M, P, N and for M = 250, P = 100, N = 260.
PageInputs ==
  {<<m, p, n>> : m \in 0..MaxM, p \in 1..MaxP, n \in 0..MaxN}
    \cup {<<250, 100, 260>>}

InitPage ==
  \E in \in PageInputs :
    /\ PageIs(Closed)
    /\ NoDate
    /\ avail = [e \in Endpoints |-> IF e = "food" THEN in[3] ELSE 0]
    /\ faultModel = AnyFault
    /\ Fresh
    /\ pc = [r \in Clients |-> IF r = 1 THEN "call" ELSE "idle"]
    /\ fa = [r \in Clients |->
               IF r = 1 THEN EnterFrame("food", in[1], in[2]) ELSE NoFrame]
    /\ calls = [r \in Clients |->
               IF r = 1 THEN <<CallRecord("food", in[1], in[2])>> ELSE <<>>]

NextPage == FetchStep(1)

SpecPage == InitPage /\ [][NextPage]_vars

\* One bare call fetchAllOpenFda(food, 1, 1) over a source of one record,
\* against an upstream that may answer with error pages of any length.
InitSnippet ==
  /\ PageIs(Closed)
  /\ NoDate
  /\ avail = [e \in Endpoints |-> IF e = "food" THEN 1 ELSE 0]
  /\ faultModel = LongPages
  /\ Fresh
  /\ pc = [r \in Clients |-> IF r = 1 THEN "call" ELSE "idle"]
  /\ fa = [r \in Clients |-> IF r = 1 THEN EnterFrame("food", 1, 1) ELSE NoFrame]
  /\ calls = [r \in Clients |-> IF r = 1 THEN <<CallRecord("food", 1, 1)>> ELSE <<>>]

NextSnippet == FetchStep(1)

SpecSnippet == InitSnippet /\ [][NextSnippet]_vars

\* The server at rest, with empty sources.
ServerIdle ==
  /\ avail = [e \in Endpoints |-> 0]
  /\ faultModel = FewFaults(0)
  /\ Quiet

\* What localStorage can hold for an address when the page opens: nothing, or
\* what an earlier visit saved.
StoredValues(q) == {Undefined, NullValue, FirstHit(q)}

StoredGeocaches ==
  {s \in [Addresses -> UNION {StoredValues(q) : q \in Addresses}] :
     \A q \in Addresses : s[q] \in StoredValues(q)}

\* The page has just been opened: the geocache is read from localStorage and
\* loadData has shown "Loading recalls..." and awaits fetch(API).
Opened(stored, faults) ==
  [Closed EXCEPT !.ld = "fetch",
                 !.localStorage = stored,
                 !.geocache = stored,
                 !.messages = [text |-> <<"Loading recalls...">>, isError |-> FALSE],
                 !.pageFaults = faults]

InitGeo ==
  /\ ServerIdle
  /\ NoDate
  /\ \E stored \in StoredGeocaches : PageIs(Opened(stored, NoFaults))

NextGeo ==
  \/ \E answer \in ApiAnswers(MaxGeoRecords) : LoadDataResponded(answer)
  \/ \E c \in ClassificationChange : ControlChanged(c)
  \/ \E f \in loops : \E outcome \in GeoOutcomes : GeocodeResponded(f, outcome)
  \/ \E f \in loops : WaitElapsed(f)

\* The page from its opening on, against any answer of the server and of the
\* geocoder.
SpecGeo == InitGeo /\ [][NextGeo]_vars

\* The same, with every geocoding request answered and every timer firing.
SpecGeoFair ==
  /\ SpecGeo
  /\ WF_vars(\E f \in loops : \E outcome \in GeoOutcomes : GeocodeResponded(f, outcome))
  /\ WF_vars(\E f \in loops : WaitElapsed(f))

\* The same page in a browser where a DOM or Leaflet call of a callback can
\* throw and where localStorage can refuse to store.
PageFaults == [throwing : SUBSET (1..MaxThrowAt), storageFails : BOOLEAN]

InitGeoThrow ==
  /\ ServerIdle
  /\ NoDate
  /\ \E stored \in StoredGeocaches, faults \in PageFaults :
       PageIs(Opened(stored, faults))

SpecGeoThrow == InitGeoThrow /\ [][NextGeo]_vars

\* The page after loadData has ended and the queue has drained, every address
\* geocoded: the user works the filters and the sort.
InitView ==
  /\ ServerIdle
  /\ NoDate
  /\ \E results \in ApiResults(MaxRecords) :
       PageIs(applyFiltersAndRender(
         [Closed EXCEPT !.ld = "done",
                        !.rawResults = results,
                        !.geocache = [q \in Addresses |-> FirstHit(q)],
                        !.localStorage = [q \in Addresses |-> FirstHit(q)],
                        !.messages = [text |-> <<"Loaded", ToString(Len(results)),
                                                 "recalls">>,
                                      isError |-> FALSE]]))

NextView == \E c \in OneChange : ControlChanged(c)

SpecView == InitView /\ [][NextView]_vars

\* normalize's report_date conversion applied to one token.
InitDate ==
  /\ ServerIdle
  /\ PageIs(Closed)
  /\ val \in DateTokens
  /\ report_date = NotNormalized

NextDate == Normalize

SpecDate == InitDate /\ [][NextDate]_vars

\* ================================================================ properties
Max(a, b) == IF a > b THEN a ELSE b

\* The bare call of SpecPage: its inputs and its page-request history.
PageM == fa[1].maxRecords
PageP == fa[1].pageSize
PageN == avail["food"]

\* Every page answered so far held what the source has at that limit/skip.
AllPagesServed(r, n) ==
  \A i \in 1..Len(reqLog[r]) :
    reqLog[r][i].got \in {-1, Min(reqLog[r][i].limit, Max(0, n - reqLog[r][i].skip))}

Limits(log) == [i \in 1..Len(log) |-> log[i].limit]

RECURSIVE SumGot(_)
SumGot(log) ==
  IF log = <<>> THEN 0 ELSE Max(0, Head(log).got) + SumGot(Tail(log))

\* C1: fetchAllOpenFda(base, M, P) over a source of N records that serves its
\* pages returns exactly the first min(N, M) records in source order; every
\* page request asks for min(P, M - accumulated) records at skip = accumulated;
\* M = 250, P = 100, N = 260 gives 250 records by the three requests 100, 100, 50.
C1_Pagination ==
  /\ \A i \in 1..Len(reqLog[1]) :
       /\ reqLog[1][i].limit = Min(PageP, PageM - reqLog[1][i].had)
       /\ reqLog[1][i].skip = reqLog[1][i].had
  /\ (fa[1].st = "returned" /\ AllPagesServed(1, PageN)) =>
       fa[1].aggregated = [i \in 1..Min(PageN, PageM) |-> <<"food", i>>]
  /\ (fa[1].st = "returned" /\ AllPagesServed(1, PageN)
        /\ PageM = 250 /\ PageP = 100 /\ PageN = 260) =>
       /\ Len(fa[1].aggregated) = 250
       /\ Limits(reqLog[1]) = <<100, 100, 50>>

C1_Witness ==
  /\ fa[1].st = "returned"
  /\ PageM = 250 /\ PageP = 100 /\ PageN = 260
  /\ Len(reqLog[1]) = 3
  /\ Len(fa[1].aggregated) = 250

\* C2: a page with fewer records than requested (zero included) ends the
\* aggregation: every request but the last got a full page, the call goes on
\* only after a full page, and what it returns holds all records of all pages,
\* those of the short page included, though fewer than maxRecords.
C2_EarlyTermination ==
  /\ \A i \in 1..(Len(reqLog[1]) - 1) : reqLog[1][i].got = reqLog[1][i].limit
  /\ (fa[1].st \in {"loop", "polite"} /\ reqLog[1] # <<>>) =>
       reqLog[1][Len(reqLog[1])].got = reqLog[1][Len(reqLog[1])].limit
  /\ fa[1].st = "returned" =>
       /\ Len(fa[1].aggregated) = SumGot(reqLog[1])
       /\ net = {}

C2_Witness ==
  /\ fa[1].st = "returned"
  /\ Len(reqLog[1]) >= 2
  /\ reqLog[1][Len(reqLog[1])].got > 0
  /\ reqLog[1][Len(reqLog[1])].got < reqLog[1][Len(reqLog[1])].limit
  /\ Len(fa[1].aggregated) < PageM

\* The object a JSON body parses to.
ParsedBody(body) == [hasResults |-> body.hasResults, results |-> body.results]

\* C3: with the default 3 attempts no wait precedes attempt 1, the wait after
\* failed attempt k is 700 * 2^(k-1) ms (700 before attempt 2, 1400 before
\* attempt 3), and a call whose first two attempts fail and whose third
\* succeeds returns what the third attempt received.
C3_RetryBackoff ==
  \A r \in Clients :
    (fo[r].st # "none" /\ fo[r].attempts = 3) =>
      /\ waits[r] = SubSeq(<<700, 1400>>, 1,
                           IF fo[r].st = "backoff" THEN fo[r].attempt
                                                   ELSE fo[r].attempt - 1)
      /\ (fo[r].st = "returned" /\ fo[r].attempt = 3) =>
           /\ served[r].attempt = 3
           /\ fo[r].result = ParsedBody(served[r].outcome.body)
           /\ waits[r] = <<700, 1400>>

C3_Witness ==
  /\ fo[1].st = "returned"
  /\ fo[1].attempt = 3
  /\ Len(fo[1].result.results) > 0

\* The error message the last exchange of a failed call stands for.
IsErrorOf(err, o) ==
  /\ err # <<>>
  /\ o.kind = "error" => err = o.message
  /\ o.kind = "timeout" => err = <<"Request", "timeout">>
  /\ (o.kind = "response" /\ o.status >= 400) =>
       /\ Len(err) >= 2
       /\ err[1] = "HTTP"
       /\ err[2] = ToString(o.status)
  /\ (o.kind = "response" /\ o.status < 400) => ~o.body.isJson

\* C4: when every attempt fails fetchOpenFda sends exactly the configured
\* number of requests (3, and 1 for the connectivity probe), then throws the
\* error of the last attempt; it returns a value only for an attempt that
\* succeeded, and fetchAllOpenFda throws that same error to the handler.
C4_ErrorPropagates ==
  \A r \in Clients :
    /\ fo[r].st = "threw" =>
         /\ fo[r].attempts = IF fo[r].url = quickTest THEN 1 ELSE 3
         /\ sent[r] = fo[r].attempts
         /\ served[r].attempt = fo[r].attempts
         /\ IsErrorOf(fo[r].err, served[r].outcome)
    /\ fo[r].st = "returned" =>
         /\ served[r].attempt = sent[r]
         /\ served[r].outcome.kind = "response"
         /\ served[r].outcome.body.isJson
    /\ fa[r].st = "threw" =>
         /\ sent[r] = 3
         /\ IsErrorOf(fa[r].err, served[r].outcome)

C4_Witness ==
  /\ fa[1].st = "threw"
  /\ pc[1] = "food"
  /\ sent[1] = 3
  /\ fa[1].err = <<"Request", "timeout">>

\* C5: every response whose status is outside 2xx is a failed attempt, so
\* fetchOpenFda never returns the body of such a response as its result.
C5_Non2xxNeverReturned ==
  \A r \in Clients :
    fo[r].st = "returned" => served[r].outcome.status \in 200..299

\* The first pass fetched nothing from either source.
NoFirstPassRecords(r) == Len(foodResults[r]) = 0 /\ Len(drugResults[r]) = 0

\* The retry pass fetched nothing, or never ran (the probe failed or was skipped).
NoRetryRecords(r) == Len(retryFood[r]) = 0 /\ Len(retryDrug[r]) = 0

\* C11: /api/recalls never answers 200 with an empty result set: in every 200
\* response count equals the length of results and is at least 1; when both
\* sources yielded no record and the fallback is exhausted or was skipped, the
\* answer is 502 with error, details (the recorded per-source errors) and message.
C11_NeverEmptySuccess ==
  \A r \in Clients :
    /\ response[r].status = 200 =>
         /\ response[r].count = Len(response[r].results)
         /\ response[r].count >= 1
    /\ (pc[r] = "done" /\ NoFirstPassRecords(r) /\ NoRetryRecords(r)) =>
         /\ response[r].status = 502
         /\ response[r].error = "Both openFDA endpoints failed"
         /\ response[r].details = errors[r]
         /\ response[r].message # ""
    /\ response[r].status = 502 => (NoFirstPassRecords(r) /\ NoRetryRecords(r))

\* The retry pass ran and fetched nothing: 502 after four fetchAllOpenFda calls.
C11_Witness ==
  /\ pc[1] = "done"
  /\ response[1].status = 502
  /\ Len(calls[1]) = 4
  /\ probes[1] = 1

FirstFood == CallRecord("food", 250, 500)
FirstDrug == CallRecord("drug", 250, 500)
SecondFood == CallRecord("food", 500, 50)
SecondDrug == CallRecord("drug", 500, 50)

EntriesFor(errs, e) == {i \in 1..Len(errs) : errs[i].endpoint = e}

AsType(items, type) == [i \in 1..Len(items) |-> [type |-> type, original |-> items[i]]]

\* C6: a failed food fetch never keeps the drug fetch from being made, a
\* failed drug fetch never discards the food records, each endpoint that
\* failed on the first pass has exactly one entry in errors (the others none),
\* and the request is answered 200 or 502, never aborted.
C6_IndependentFailures ==
  \A r \in Clients :
    /\ pc[r] \in {"drug", "probe", "retryFood", "retryDrug", "done"} =>
         /\ Len(calls[r]) >= 2
         /\ calls[r][1] = FirstFood
         /\ calls[r][2] = FirstDrug
    /\ \A e \in Endpoints :
         Cardinality(EntriesFor(errors[r], e)) = IF <<1, e>> \in failed[r] THEN 1 ELSE 0
    /\ (pc[r] = "done" /\ Len(foodResults[r]) > 0) =>
         /\ response[r].status = 200
         /\ SubSeq(response[r].results, 1, Len(foodResults[r]))
              = AsType(foodResults[r], "Food")
    /\ (pc[r] = "done" /\ Len(foodResults[r]) + Len(drugResults[r]) > 0) =>
         /\ response[r].hasErrors = (errors[r] # <<>>)
         /\ response[r].errors = errors[r]
    /\ pc[r] = "done" => response[r].status \in {200, 502}

C6_Witness ==
  /\ pc[1] = "done"
  /\ <<1, "food">> \in failed[1]
  /\ Len(drugResults[1]) > 0
  /\ response[1].status = 200
  /\ Len(response[1].errors) = 1

\* The sources whose fetch threw in the pass that produced the answer.
FailedInAnswer(r) ==
  {e \in Endpoints : <<IF response[r].retried THEN 2 ELSE 1, e>> \in failed[r]}

TypeOf(e) == IF e = "food" THEN "Food" ELSE "Drug"

InResults(r, e) ==
  \E i \in 1..Len(response[r].results) : response[r].results[i].type = TypeOf(e)

\* C7: a 200 answer produced although the fetch of a source failed (first
\* pass or retry pass) carries a non-empty errors array that names a source
\* that failed and names no source whose records are in the answer.
C7_ErrorsNameFailedSource ==
  \A r \in Clients :
    (pc[r] = "done" /\ response[r].status = 200 /\ FailedInAnswer(r) # {}) =>
      /\ response[r].hasErrors
      /\ \E e \in FailedInAnswer(r) : EntriesFor(response[r].errors, e) # {}
      /\ \A e \in Endpoints :
           EntriesFor(response[r].errors, e) # {} => ~InResults(r, e)

\* C8 (as stated): at every moment at most one outbound call is in flight,
\* also in total while several client requests are being served.
C8_OneInFlightInTotal == Cardinality(net) <= 1

\* C8 (amended): within one request at most one outbound call is in flight:
\* it is the request of the running attempt of the running fetchOpenFda call,
\* a food (drug) page is in flight only while the handler awaits the food
\* (drug) fetch, the probe only while it awaits the probe.
C8_OneInFlightPerRequest ==
  \A r \in Clients :
    /\ Cardinality({m \in net : m.client = r}) <= 1
    /\ \A m \in net :
         m.client = r =>
           /\ fo[r].st = "inflight"
           /\ m.url = fo[r].url
           /\ m.attempt = fo[r].attempt
           /\ ~m.url.search => pc[r] = "probe"
           /\ (m.url.search /\ m.url.endpoint = "food") => pc[r] \in {"food", "retryFood"}
           /\ (m.url.search /\ m.url.endpoint = "drug") => pc[r] \in {"drug", "retryDrug"}

C8_Witness ==
  /\ \E m \in net : m.client = 1 /\ m.url.endpoint = "drug" /\ m.attempt = 2
  /\ \E m \in net : m.client = 2 /\ m.url.endpoint = "food"
  /\ foodResults[1] # <<>>

\* No recorded reason looks like a hard network failure.
NoNetworkReason(r) ==
  \A i \in 1..Len(errors[r]) :
    \A k \in 1..Len(errors[r][i].reason) :
      errors[r][i].reason[k] \notin {"ECONNREFUSED", "ETIMEDOUT", "ENOTFOUND", "socket", "TLS"}

BothEmptyFirstPass(r) ==
  /\ pc[r] \in {"probe", "retryFood", "retryDrug", "done"}
  /\ foodResults[r] = <<>>
  /\ drugResults[r] = <<>>

C10_RetryOnce ==
  \A r \in Clients :
    /\ Len(calls[r]) <= 4
    /\ pc[r] \in {"idle", "food", "pause", "drug", "probe"} => Len(calls[r]) <= 2
    /\ pc[r] = "retryFood" => calls[r] = <<FirstFood, FirstDrug, SecondFood>>
    /\ pc[r] = "retryDrug" => calls[r] = <<FirstFood, FirstDrug, SecondFood, SecondDrug>>
    /\ (pc[r] = "done" /\ probes[r] = 1 /\ <<0, "probe">> \notin failed[r]) =>
         /\ calls[r] = <<FirstFood, FirstDrug, SecondFood, SecondDrug>>
         /\ IF Len(retryFood[r]) + Len(retryDrug[r]) > 0
              THEN /\ response[r].status = 200
                   /\ response[r].retried
                   /\ response[r].results =
                        AsType(retryFood[r], "Food") \o AsType(retryDrug[r], "Drug")
                   /\ response[r].count = Len(retryFood[r]) + Len(retryDrug[r])
              ELSE response[r].status = 502
    /\ (pc[r] = "done" /\ (probes[r] = 0 \/ <<0, "probe">> \in failed[r])) =>
         /\ Len(calls[r]) = 2
         /\ ~response[r].retried

C10_Witness ==
  /\ pc[1] = "done"
  /\ response[1].status = 200
  /\ response[1].retried
  /\ Len(retryFood[1]) > 50
  /\ Len(retryDrug[1]) > 0

\* ------------------------------------------------------- the geocode queue
Delivered(id) == \E i \in 1..Len(delivered) : delivered[i].id = id

\* Every enqueueGeocode call made so far has had its callback called.
AllDelivered == \A id \in 1..enq : Delivered(id)

LookedUp(id) ==
  \E i \in 1..Len(delivered) :
    delivered[i].id = id /\ delivered[i].outcome # "error"

\* C13: when one address is geocoded twice and the first lookup ended without
\* error, only one network request is made: what the first lookup gave, a
\* coordinate pair or the null of "no match", is cached and the second item is
\* served from the cache.
C13_SecondServedFromCache ==
  \A i, j \in 1..Len(taken) :
    (i < j /\ taken[i].q = taken[j].q /\ LookedUp(taken[i].id)) =>
      taken[j].fromCache

\* C14: after every item, served from the cache, looked up or failed, the loop
\* waits 1.1 s before it takes the next one: a whole wait lies between two
\* items taken, so between two geocoding requests too, and the loop that has
\* delivered an item is in the wait that follows it.
C14_WaitAfterEveryItem ==
  /\ \A i, j \in 1..Len(taken) :
       i < j => taken[j].waits >= taken[i].waits + (j - i)
  /\ \A i, j \in 1..Len(taken) :
       (i < j /\ ~taken[i].fromCache /\ ~taken[j].fromCache) =>
         taken[j].waits >= taken[i].waits + 1
  /\ geoWaits =
       Len(delivered) - Cardinality({f \in loops : f.st = "wait"})

\* Two requests were sent with a cached item served between them.
C14_Witness ==
  \E i \in 1..Len(taken) :
    /\ i + 2 <= Len(taken)
    /\ ~taken[i].fromCache
    /\ taken[i + 1].fromCache
    /\ ~taken[i + 2].fromCache
    /\ taken[i + 2].waits = taken[i].waits + 2

\* C15: whatever calls enqueueGeocode (loadData, a render caused by the user,
\* a render caused by a callback), at most one runGeomQueue loop is active
\* and at most one geocoding request is in flight, and the callbacks are
\* called in the order of the enqueueGeocode calls.
C15_OneLoopFifo ==
  /\ Cardinality(loops) <= 1
  /\ Cardinality(geoNet) <= 1
  /\ \A i \in 1..Len(taken) : taken[i].id = i
  /\ \A i \in 1..Len(delivered) : delivered[i].id = i

\* A request is in flight while items enqueued by loadData's render, by the
\* render of a callback and by a render the user caused wait in the queue.
C15_Witness ==
  /\ Cardinality(geoNet) = 1
  /\ controls # DefaultControls
  /\ \E i \in 1..Len(delivered) : delivered[i].kind = "rerender"
  /\ \E i \in 1..Len(delivered) : delivered[i].kind = "marker"
  /\ Len(geocodeQueue) >= 2

Last(seq) == seq[Len(seq)]

\* C20: a geocoding failure is shown to the user: once a callback has been
\* called with an error the status area holds an error message, as it does
\* after loadData failed to fetch the recalls.
C20_GeocodeFailureShown ==
  /\ (delivered # <<>> /\ Last(delivered).outcome = "error") => messages.isError
  /\ (ld = "done" /\ rawResults = <<>>) => messages.isError

\* ------------------------------------------------------------ report dates
\* The ISO form of the year, month and day an eight-character token spells.
IsoOfToken(s) ==
  SubSeq(s, 1, 4) \o <<"-">> \o SubSeq(s, 5, 6) \o <<"-">> \o SubSeq(s, 7, 8)
    \o MidnightUTC

\* The token spells a day of the calendar.
IsCalendarDay(s) ==
  /\ AllDigits(s)
  /\ NumberOf(SubSeq(s, 5, 6)) \in 1..12
  /\ NumberOf(SubSeq(s, 7, 8)) \in
       1..DaysInMonth(NumberOf(SubSeq(s, 1, 4)), NumberOf(SubSeq(s, 5, 6)))

\* C17: for every raw record whose report_date token has exactly 8 characters
\* the normalized report_date is the ISO-8601 midnight-UTC timestamp of the
\* year, month and day the token spells (20210315 gives
\* 2021-03-15T00:00:00.000Z), a valid calendar date of exactly that day; a
\* token of any other length gives null.
C17_ReportDateOfToken ==
  report_date.done =>
    /\ Len(val) = 8 =>
         /\ report_date.value = IsoOfToken(val)
         /\ IsCalendarDay(val)
    /\ Len(val) # 8 => report_date.value = Null

\* --------------------------------------------------------- filter and sort
Listed(id) == \E i \in 1..Len(listEl) : listEl[i] = id

\* a and b are the same string but for the case of their letters.
EqualIgnoringCase(a, b) ==
  /\ Len(a) = Len(b)
  /\ \A i \in 1..Len(a) :
       \/ a[i] = b[i]
       \/ /\ IsLower(a[i]) \/ IsUpper(a[i])
          /\ IsLower(b[i]) \/ IsUpper(b[i])
          /\ LetterIndex(a[i]) = LetterIndex(b[i])

PassesClass(rec) ==
  \/ controls.classification = All
  \/ EqualIgnoringCase(rec.classification, controls.classification)

\* C18: the classification filter keeps exactly the records whose
\* classification equals the selected value but for case, and the filter All
\* removes nothing: every listed record passes it, and with the other filters
\* off the list holds the records that pass it and no other.
C18_ClassificationFilter ==
  /\ \A i \in 1..Len(listEl) : PassesClass(RecordById(listEl[i]))
  /\ (controls.type = "All" /\ controls.search = <<>>) =>
       \A i \in 1..Len(rawResults) :
         Listed(rawResults[i].id) <=> PassesClass(rawResults[i])
  /\ (controls.type = "All" /\ controls.search = <<>>
        /\ controls.classification = All) =>
       Len(listEl) = Len(rawResults)

\* The select is at "Class I": the records of Class I and of CLASS I are
\* listed, the record of Class II is not.
C18_Witness ==
  /\ controls.classification = ClassI
  /\ controls.type = "All"
  /\ controls.search = <<>>
  /\ Listed(1)
  /\ Listed(2)
  /\ Len(rawResults) = 3
  /\ Len(listEl) = 2

\* The day of a record as a number, 0 for a record without report date.
DateKey(id) ==
  IF RecordById(id).report_date = Null THEN 0
  ELSE NumberOf(RecordById(id).raw_report_date)

\* C19: date_desc lists the records by report date, the latest first, and the
\* records without date behind all dated ones; date_asc lists them the other
\* way round, the records without date first.
C19_DateSort ==
  /\ controls.sort = "date_desc" =>
       \A i, j \in 1..Len(listEl) :
         i < j => /\ DateKey(listEl[i]) >= DateKey(listEl[j])
                  /\ DateKey(listEl[i]) = 0 => DateKey(listEl[j]) = 0
  /\ controls.sort = "date_asc" =>
       \A i, j \in 1..Len(listEl) :
         i < j => /\ DateKey(listEl[i]) <= DateKey(listEl[j])
                  /\ DateKey(listEl[j]) = 0 => DateKey(listEl[i]) = 0

\* The user has chosen date_asc over three records: the record without date,
\* which the server sent last, then two different dates, the earlier first.
C19_Witness ==
  /\ controls.sort = "date_asc"
  /\ Len(listEl) = 3
  /\ rawResults[3].id = listEl[1]
  /\ DateKey(listEl[1]) = 0
  /\ DateKey(listEl[2]) > 0
  /\ DateKey(listEl[3]) > DateKey(listEl[2])

\* ------------------------------------------------------------------- C21
\* The messages of the hard network failures the upstream model produces: the
\* request's "error" event messages and fetchOpenFda's own timeout error.
RequestTimeout == <<"Request", "timeout">>

IsHardNetworkFailure(reason) ==
  reason \in TransportMessages \/ reason = RequestTimeout

HardFailureRecorded(r) ==
  \E i \in 1..Len(errors[r]) : IsHardNetworkFailure(errors[r][i].reason)

\* C21: when both sources gave zero records on the first pass and a recorded
\* error is a hard network failure (a transport error, or the request timeout
\* raised by fetchOpenFda), no probe is sent, no retry fetch is made and the
\* answer is 502.
C21_NetworkFailureSkipsProbe ==
  \A r \in Clients :
    (BothEmptyFirstPass(r) /\ HardFailureRecorded(r)) =>
      /\ probes[r] = 0
      /\ Len(calls[r]) = 2
      /\ pc[r] = "done"
      /\ response[r].status = 502

\* ------------------------------------------------------------------- C22
\* The part of an "HTTP <status>: <snippet>" message after the status.
SnippetOf(message) == SubSeq(message, 3, Len(message))

\* fetchOpenFda threw the error made from an error response.
ThrewErrorStatus(r) ==
  /\ fo[r].st = "threw"
  /\ served[r].outcome.kind = "response"
  /\ IsErrorStatus(served[r].outcome.status)

\* C22 as stated: the body snippet in the error message of an upstream error
\* response is at most 500 characters long, whatever the length of the body.
C22_SnippetAtMostLimit ==
  \A r \in Clients :
    ThrewErrorStatus(r) => Len(SnippetOf(fo[r].err)) <= SnippetLimit

\* C22 amended: the snippet is the body itself when the body has at most 500
\* characters; for a longer body it is the body's first 500 characters followed
\* by "...", 503 characters in all, so a snippet is never longer than 503.
C22_SnippetLimitPlusEllipsis ==
  \A r \in Clients :
    ThrewErrorStatus(r) =>
      LET data == served[r].outcome.body.words
          snippet == SnippetOf(fo[r].err) IN
      /\ Len(snippet) <= SnippetLimit + 3
      /\ IF Len(data) <= SnippetLimit
           THEN snippet = data
           ELSE /\ Len(snippet) = SnippetLimit + 3
                /\ SubSeq(snippet, 1, SnippetLimit) = SubSeq(data, 1, SnippetLimit)
                /\ SubSeq(snippet, SnippetLimit + 1, SnippetLimit + 3) = <<".", ".", ".">>

C22_Witness ==
  /\ ThrewErrorStatus(1)
  /\ Len(served[1].outcome.body.words) = SnippetLimit + 4
  /\ Len(SnippetOf(fo[1].err)) = SnippetLimit + 3

\* ------------------------------------------------------------------- C23
\* The place of a record's classification in lexical order: the empty string
\* of an absent classification, then Class I (in either case), Class II,
\* Class III.
ClassRank(id) ==
  LET c == RecordById(id).classification IN
  IF c = Null THEN 0
  ELSE IF EqualIgnoringCase(c, ClassI) THEN 1
  ELSE IF c = ClassII THEN 2
  ELSE 3

AscendingClass ==
  \A i, j \in 1..Len(listEl) : i < j => ClassRank(listEl[i]) <= ClassRank(listEl[j])

DescendingClass ==
  \A i, j \in 1..Len(listEl) : i < j => ClassRank(listEl[i]) >= ClassRank(listEl[j])

\* C23 as stated: class_asc lists the records in ascending lexical order of
\* classification (Class I before Class II before Class III, an absent
\* classification as the empty string), class_desc in descending order.
C23_ClassSortAsNamed ==
  /\ controls.sort = "class_asc" => AscendingClass
  /\ controls.sort = "class_desc" => DescendingClass

\* C23 amended: the directions are the other way round. class_desc lists the
\* records in ascending lexical order of classification, an absent
\* classification first, and class_asc in descending lexical order, an absent
\* classification last.
C23_ClassSortReversed ==
  /\ controls.sort = "class_desc" => AscendingClass
  /\ controls.sort = "class_asc" => DescendingClass

\* The user has chosen class_asc over three records the server sent in
\* ascending order: Class III is listed first, the record without
\* classification last.
C23_Witness ==
  /\ controls.sort = "class_asc"
  /\ Len(listEl) = 3
  /\ Ids(rawResults) = <<listEl[3], listEl[2], listEl[1]>>
  /\ ClassRank(listEl[1]) = 3
  /\ ClassRank(listEl[2]) = 2
  /\ ClassRank(listEl[3]) = 0

\* ------------------------------------------------------------------- C24
\* The number of markers on the map that belong to record id.
MarkersOf(id) == Cardinality({i \in 1..Len(markersLayer) : markersLayer[i] = id})

\* C24: whatever render passes and geocode completions have happened, every
\* marker on the map belongs to a record of the visible list and no record
\* has two markers.
C24_MarkersMatchVisibleList ==
  /\ \A i \in 1..Len(markersLayer) : Listed(markersLayer[i])
  /\ \A i \in 1..Len(listEl) : MarkersOf(listEl[i]) <= 1

\* ------------------------------------------------------------------- C25
\* The number of times the callback of the id-th enqueueGeocode call has been
\* invoked.
Invocations(id) ==
  Cardinality({i \in 1..Len(delivered) : delivered[i].id = id})

\* C25: the callback of an enqueueGeocode call is never invoked twice, also
\* when it throws while it is handed a successful result.
C25_CallbackAtMostOnce ==
  \A id \in 1..enq : Invocations(id) <= 1

\* ------------------------------------------------------------------- C26
\* C26: geocodeRunning is true only while a loop is alive (suspended at its
\* request or at its wait), also when a callback throws or the cache cannot
\* be saved.
C26_RunningOnlyWhileLoopAlive ==
  geocodeRunning => loops # {}

\* ------------------------------------------------------------------- C27
\* The handler takes up the outcome of the fetchAllOpenFda call it awaited.
TakesUp(r) == FaDone(r) /\ fa'[r] # fa[r]

NoneOfType(results, type) ==
  \A i \in 1..Len(results) : results[i].type # type

\* What the handler holds for a source after a call for it threw.
NothingFrom(r) ==
  /\ <<1, "food">> \in failed[r] => foodResults[r] = <<>> /\ EntriesFor(errors[r], "food") # {}
  /\ <<1, "drug">> \in failed[r] => drugResults[r] = <<>> /\ EntriesFor(errors[r], "drug") # {}
  /\ <<2, "food">> \in failed[r] => retryFood[r] = <<>>
  /\ <<2, "drug">> \in failed[r] => retryDrug[r] = <<>>
  /\ (pc[r] = "done" /\ response[r].retried) =>
       /\ <<2, "food">> \in failed[r] => NoneOfType(response[r].results, "Food")
       /\ <<2, "drug">> \in failed[r] => NoneOfType(response[r].results, "Drug")

\* The step that takes up a call that threw: nothing of the call's aggregate
\* is stored; the first pass records one error for the source, the retry pass
\* records none.
ThrowTakenUp(r) ==
  (TakesUp(r) /\ fa[r].st = "threw") =>
    /\ pc[r] = "food" => foodResults'[r] = <<>>
    /\ pc[r] = "drug" => drugResults'[r] = <<>>
    /\ pc[r] = "retryFood" => retryFood'[r] = <<>>
    /\ pc[r] = "retryDrug" => retryDrug'[r] = <<>>
    /\ pc[r] \in {"food", "drug"} =>
         /\ Len(errors'[r]) = Len(errors[r]) + 1
         /\ Last(errors'[r]) = [endpoint |-> pc[r], reason |-> fa[r].err]
    /\ pc[r] \in {"retryFood", "retryDrug"} => errors'[r] = errors[r]

\* C27: fetchAllOpenFda is all-or-nothing per source. When the request of a
\* page fails after its retries the call throws, and the records of the pages
\* fetched before do not reach the handler: the source counts as having zero
\* records, with an error recorded on the first pass and just the empty list
\* on the retry pass.
C27_AllOrNothing ==
  /\ [](\A r \in Clients : NothingFrom(r))
  /\ [][\A r \in Clients : ThrowTakenUp(r)]_vars

\* The food retry has fetched a full page and then threw at a later page.
C27_Witness ==
  /\ pc[1] = "retryFood"
  /\ fa[1].st = "threw"
  /\ Len(fa[1].aggregated) >= RetryPageSize

====
